---- MODULE Spec2Model ----
(***************************************************************************)
(* Snooty: a line-oriented DSL for scraping HTML (snooty.ipynb).           *)
(* The notebook defines a pypeg2 grammar (cell 2), the interpreter         *)
(* run(code, html) (cell 3), the globals doc and scraper (cells 4, 5) and  *)
(* calls run(scraper, doc) (cell 6).  The model keeps the notebook's       *)
(* globals, the process locale and the frame of the call in progress.      *)
(***************************************************************************)
EXTENDS Integers, Sequences, FiniteSets

VARIABLES
    scraper,        \* notebook global `scraper` (cell 5): the script text, a sequence of token lines
    processLocale,  \* the process-wide LC_ALL setting locale.setlocale writes
    code,           \* run's parameter `code`
    doc,            \* run's local `doc`: the element tree of the html argument
    pc,             \* where the call is: "idle", "loop", "done" (returned), "failed" (raised)
    ast,            \* run's local `ast`: the parsed statement list
    idx,            \* how many statements of ast the for loop has completed
    selectors,      \* run's local dict `selectors`
    export,         \* run's local dict `export`, the nested result
    queries,        \* how many times this call has evaluated doc.xpath(...)
    output          \* what the call gave its caller: nothing yet, the printed dict, or the exception

vars == <<scraper, processLocale, code, doc, pc, ast, idx, selectors, export, queries, output>>

----------------------------------------------------------------------------
(* Bounds of the model *)

MaxStmts == 3      \* lines of a script

----------------------------------------------------------------------------
(* The document (cell 4) as lxml holds it: elements in document order,     *)
(* each with its tag, the index of its parent (0 for the root element),    *)
(* its own markup and the text that follows its end tag (its tail).        *)

Node(t, p, m, tl) == [tag |-> t, parent |-> p, markup |-> m, tail |-> tl]

NotebookDoc ==
    << Node("html", 0, "<html>..</html>", ""),
       Node("body", 1, "<body>..</body>", "\n"),
       Node("h1",   2, "<h1>A Heading</h1>", "\n    "),
       Node("p",    2, "<p>A paragraph. It contains <a href=/foo>a link.</a></p>", "\n    "),
       Node("a",    4, "<a href=/foo>a link.</a>", ""),
       Node("ol",   2, "<ol>..</ol>", "\n"),
       Node("li",   6, "<li>Link <a href=/1.html>one</a></li>", "\n        "),
       Node("a",    7, "<a href=/1.html>one</a>", ""),
       Node("li",   6, "<li>Link <a href=/2.html>two</a></li>", "\n        "),
       Node("a",    9, "<a href=/2.html>two</a>", ""),
       Node("li",   6, "<li>Link <a href=/3.html>three</a></li>", "\n    "),
       Node("a",   11, "<a href=/3.html>three</a>", "") >>

Docs == {NotebookDoc}

----------------------------------------------------------------------------
(* Script text: a sequence of lines, each a sequence of tokens.            *)

Punct == {"#", "=", "->", "."}
IsWord(t) == t \notin Punct

RECURSIVE Dotted(_)
Dotted(path) ==
    IF Len(path) = 1 THEN <<path[1]>>
    ELSE <<path[1], ".">> \o Dotted(Tail(path))

CommentLine == <<"#", "note">>
JunkLine == <<"import", "os">>
LocaleLine(l) == <<"locale", l>>
SelectorLine(n, p, c) == <<"selector", n, "=", p, "->", c>>
ExportLine(path, s) == <<"export">> \o Dotted(path) \o <<"=", s>>

LocaleIds == {"en_US", "xx_XX"}
SelNames == {"s", "t"}
SelPatterns == {<<"p", "a">>, <<"li", "a">>, <<"ol", "a">>}
DottedNames == {<<"a">>, <<"a", "b">>, <<"a", "c">>, <<"a", "b", "c">>}

Lines ==
    {CommentLine, JunkLine}
    \cup {LocaleLine(l) : l \in LocaleIds}
    \cup {SelectorLine(n, s[1], s[2]) : n \in SelNames, s \in SelPatterns}
    \cup {ExportLine(p, n) : p \in DottedNames, n \in SelNames}

\* The scraper of cell 5, its comments shortened to one token
NotebookScript ==
    << CommentLine,
       LocaleLine("en_US"),
       CommentLine,
       CommentLine,
       SelectorLine("paragraph", "p", "a"),
       SelectorLine("list_items", "li", "a"),
       CommentLine,
       CommentLine,
       ExportLine(<<"foo", "paragraph">>, "paragraph"),
       ExportLine(<<"foo", "list">>, "list_items") >>

NotebookNames == {<<"foo", "paragraph">>, <<"foo", "list">>}

\* A script of four lines that exports below a stored list with a selector
\* name its last line declares
ForwardReferenceScript ==
    << SelectorLine("s", "li", "a"),
       ExportLine(<<"a">>, "s"),
       ExportLine(<<"a", "b", "c">>, "t"),
       SelectorLine("t", "p", "a") >>

\* The scripts of a session: every text of at most MaxStmts lines, the
\* notebook's own, and the four-line script above
Scripts ==
    UNION {[1..n -> Lines] : n \in 0..MaxStmts} \cup {NotebookScript, ForwardReferenceScript}

----------------------------------------------------------------------------
(* The grammar (cell 2) *)

\* class Comment: '#', restline, endl
IsComment(l) == Len(l) >= 1 /\ l[1] = "#"
Comment(l) == [kind |-> "Comment", text |-> Tail(l)]

\* class LocaleStatement: 'locale', word
IsLocaleStatement(l) == Len(l) = 2 /\ l[1] = "locale" /\ IsWord(l[2])
LocaleStatement(l) == [kind |-> "LocaleStatement", locale |-> l[2]]

\* class Selector: word, '->', word
IsSelector(l) == Len(l) = 3 /\ IsWord(l[1]) /\ l[2] = "->" /\ IsWord(l[3])
Selector(l) == [parent |-> l[1], child |-> l[3]]

\* class SelectorStatement: 'selector', name(), '=', Selector
IsSelectorStatement(l) ==
    /\ Len(l) >= 3 /\ l[1] = "selector" /\ IsWord(l[2]) /\ l[3] = "="
    /\ IsSelector(SubSeq(l, 4, Len(l)))
SelectorStatement(l) ==
    [kind |-> "SelectorStatement", name |-> l[2], selector |-> Selector(SubSeq(l, 4, Len(l)))]

\* class DottedName(List): csl(str, separator='.')
IsDottedName(d) ==
    /\ Len(d) % 2 = 1
    /\ \A i \in 1..Len(d) : IF i % 2 = 1 THEN IsWord(d[i]) ELSE d[i] = "."
DottedName(d) == [i \in 1..((Len(d) + 1) \div 2) |-> d[2 * i - 1]]

\* class ExportStatement: 'export', DottedName, '=', str
IsExportStatement(l) ==
    /\ Len(l) >= 4 /\ l[1] = "export" /\ l[Len(l) - 1] = "=" /\ IsWord(l[Len(l)])
    /\ IsDottedName(SubSeq(l, 2, Len(l) - 2))
ExportStatement(l) ==
    [kind |-> "ExportStatement", name |-> DottedName(SubSeq(l, 2, Len(l) - 2)),
     selector |-> l[Len(l)]]

\* class Script(List): maybe_some([Comment, ExportStatement, LocaleStatement, SelectorStatement])
Matches(l) ==
    IsComment(l) \/ IsExportStatement(l) \/ IsLocaleStatement(l) \/ IsSelectorStatement(l)

ParseLine(l) ==
    IF IsComment(l) THEN Comment(l)
    ELSE IF IsExportStatement(l) THEN ExportStatement(l)
    ELSE IF IsLocaleStatement(l) THEN LocaleStatement(l)
    ELSE SelectorStatement(l)

\* pypeg2.parse(text, Script): the statement list, or SyntaxError when text is left over
ParseOk(text) == \A i \in 1..Len(text) : Matches(text[i])
Parse(text) == [i \in 1..Len(text) |-> ParseLine(text[i])]

----------------------------------------------------------------------------
(* Values of the interpreter (cell 3) *)

HostLocales == {"C", "en_US"}     \* the identifiers the host's setlocale accepts
StartupLocale == "C"              \* LC_ALL of a fresh Python process

IsPrefix(p, q) == Len(p) <= Len(q) /\ SubSeq(q, 1, Len(p)) = p
IsProperPrefix(p, q) == Len(p) < Len(q) /\ IsPrefix(p, q)

\* Every place of the nested dict `export` a script of Scripts can touch.
\* The dict is held flat: the object stored under each dotted path
\* (nothing, a dict, or a list of serialized elements).  Python nests the
\* dicts by reference without aliasing, so a path names one object.
TreePaths == UNION {{SubSeq(p, 1, n) : n \in 1..Len(p)} : p \in DottedNames \cup NotebookNames}

Absent == [type |-> "absent", items |-> <<>>]
NewDict == [type |-> "dict", items |-> <<>>]
NewList(xs) == [type |-> "list", items |-> xs]

EmptyTree == [p \in TreePaths |-> Absent]
NoSelectors == [n \in {} |-> Absent]

\* type of the object a reference points to; <<>> is the dict `export` itself
TypeAt(tree, p) == IF p = <<>> THEN "dict" ELSE tree[p].type

\* Variant of Store that keeps what was stored below the path
StoreKeepingBelow(tree, p, value) ==
    [q \in TreePaths |-> IF q = p THEN value ELSE tree[q]]

\* Variant of Store: the new items are added to a list already there
StoreExtending(tree, p, value) ==
    [q \in TreePaths |->
        IF q = p
        THEN (IF tree[q].type = "list" /\ value.type = "list"
              THEN NewList(tree[q].items \o value.items) ELSE value)
        ELSE IF IsProperPrefix(p, q) THEN Absent
        ELSE tree[q]]

\* exp[name] = value, with p the path of exp[name]: the object stored there
\* before, and with it everything below, is dropped
Store(tree, p, value) ==
    [q \in TreePaths |->
        IF q = p THEN value
        ELSE IF IsProperPrefix(p, q) THEN Absent
        ELSE tree[q]]

\* Variant of Bind: a name already bound keeps its selector
BindFirstWins(sels, name, sel) ==
    [n \in (DOMAIN sels) \cup {name} |-> IF n \in DOMAIN sels THEN sels[n] ELSE sel]

\* Variant of Bind: the table keeps the latest binding only
BindAlone(sels, name, sel) == [n \in {name} |-> sel]

\* selectors[stmt.name] = stmt.selector
Bind(sels, name, sel) ==
    [n \in (DOMAIN sels) \cup {name} |-> IF n = name THEN sel ELSE sels[n]]

\* Variant of Xpath: '//{}//{}', any descendant of a parent-tagged element
RECURSIVE HasAncestor(_, _, _)
HasAncestor(d, i, tag) ==
    LET up == d[i].parent IN
    up # 0 /\ (d[up].tag = tag \/ HasAncestor(d, up, tag))

XpathDescendant(d, sel) ==
    SelectSeq([i \in 1..Len(d) |-> i],
              LAMBDA i : d[i].tag = sel.child /\ HasAncestor(d, i, sel.parent))

\* doc.xpath('//{}/{}'.format(sel.parent, sel.child)): the elements tagged
\* child whose parent element is tagged parent, in document order
Xpath(d, sel) ==
    SelectSeq([i \in 1..Len(d) |-> i],
              LAMBDA i : /\ d[i].tag = sel.child
                         /\ d[i].parent # 0
                         /\ d[d[i].parent].tag = sel.parent)

\* etree.tostring(e): the element's markup followed by its tail text
tostring(d, i) == <<d[i].markup, d[i].tail>>

\* Variant of Extract: the matches in reverse order
ExtractReversed(d, sel) ==
    LET hits == Xpath(d, sel) IN
    [k \in 1..Len(hits) |-> tostring(d, hits[Len(hits) + 1 - k])]

\* [etree.tostring(e) for e in doc.xpath(...)]
Extract(d, sel) == LET hits == Xpath(d, sel) IN [k \in 1..Len(hits) |-> tostring(d, hits[k])]

\* Variant of Descend that puts a new dict in the place of anything that is not one
RECURSIVE DescendReplacingLeaves(_, _, _)
DescendReplacingLeaves(tree, exp, names) ==
    IF names = <<>> THEN [tree |-> tree, exp |-> exp, exc |-> "none"]
    ELSE LET next == Append(exp, Head(names)) IN
         IF tree[next].type # "dict"
         THEN DescendReplacingLeaves(Store(tree, next, NewDict), next, Tail(names))
         ELSE DescendReplacingLeaves(tree, next, Tail(names))

\* Variant of Descend without the `if name not in exp` test: every segment
\* gets a new dict
RECURSIVE DescendAfresh(_, _, _)
DescendAfresh(tree, exp, names) ==
    IF names = <<>> THEN [tree |-> tree, exp |-> exp, exc |-> "none"]
    ELSE LET next == Append(exp, Head(names)) IN
         IF TypeAt(tree, exp) = "list"
         THEN [tree |-> tree, exp |-> exp, exc |-> "TypeError"]
         ELSE DescendAfresh(Store(tree, next, NewDict), next, Tail(names))

\* for name in stmt.name[:-1]: if name not in exp: exp[name] = dict(); exp = exp[name]
\* exp is a reference into the tree.  When exp has become a list, `name not
\* in exp` is true (a str equals no bytes item) and exp[name] = dict()
\* raises TypeError.
RECURSIVE Descend(_, _, _)
Descend(tree, exp, names) ==
    IF names = <<>> THEN [tree |-> tree, exp |-> exp, exc |-> "none"]
    ELSE LET next == Append(exp, Head(names)) IN
         IF TypeAt(tree, exp) = "list"
         THEN [tree |-> tree, exp |-> exp, exc |-> "TypeError"]
         ELSE IF tree[next].type = "absent"
         THEN Descend(Store(tree, next, NewDict), next, Tail(names))
         ELSE Descend(tree, next, Tail(names))

\* Variant of ExportInto that stores nothing when the query matches nothing
ExportIntoUnlessEmpty(tree, sels, d, stmt) ==
    LET n == Len(stmt.name)
        w == Descend(tree, <<>>, SubSeq(stmt.name, 1, n - 1))
    IN  IF w.exc # "none"
        THEN [tree |-> w.tree, exc |-> w.exc, arg |-> "list indices", queried |-> FALSE]
        ELSE IF stmt.selector \notin DOMAIN sels
        THEN [tree |-> w.tree, exc |-> "KeyError", arg |-> stmt.selector, queried |-> FALSE]
        ELSE IF TypeAt(w.tree, w.exp) = "list"
        THEN [tree |-> w.tree, exc |-> "TypeError", arg |-> "list indices", queried |-> TRUE]
        ELSE IF Xpath(d, sels[stmt.selector]) = <<>>
        THEN [tree |-> w.tree, exc |-> "none", arg |-> "", queried |-> TRUE]
        ELSE [tree |-> Store(w.tree, Append(w.exp, stmt.name[n]),
                             NewList(Extract(d, sels[stmt.selector]))),
              exc |-> "none", arg |-> "", queried |-> TRUE]

\* The ExportStatement branch: descend, look the selector up (KeyError when
\* unbound), query and serialize, then exp[stmt.name[-1]] = [...] (TypeError
\* when exp is a list; the right-hand side, and so the query, is evaluated
\* before the assignment fails).  queried tells whether doc.xpath was called.
ExportInto(tree, sels, d, stmt) ==
    LET n == Len(stmt.name)
        w == Descend(tree, <<>>, SubSeq(stmt.name, 1, n - 1))
    IN  IF w.exc # "none"
        THEN [tree |-> w.tree, exc |-> w.exc, arg |-> "list indices", queried |-> FALSE]
        ELSE IF stmt.selector \notin DOMAIN sels
        THEN [tree |-> w.tree, exc |-> "KeyError", arg |-> stmt.selector, queried |-> FALSE]
        ELSE IF TypeAt(w.tree, w.exp) = "list"
        THEN [tree |-> w.tree, exc |-> "TypeError", arg |-> "list indices", queried |-> TRUE]
        ELSE [tree |-> Store(w.tree, Append(w.exp, stmt.name[n]),
                             NewList(Extract(d, sels[stmt.selector]))),
              exc |-> "none", arg |-> "", queried |-> TRUE]

Nothing == [kind |-> "none"]
Printed(tree) == [kind |-> "printed", value |-> tree]
Raised(e, a) == [kind |-> "raised", exc |-> e, arg |-> a]

----------------------------------------------------------------------------
(* The session *)

\* cells 1-5 have run: the globals are set, run has not been called
Init ==
    /\ scraper \in Scripts
    /\ processLocale = StartupLocale
    /\ code = <<>>
    /\ doc = <<>>
    /\ pc = "idle"
    /\ ast = <<>>
    /\ idx = 0
    /\ selectors = NoSelectors
    /\ export = EmptyTree
    /\ queries = 0
    /\ output = Nothing

\* The text line 92 hands to the parser: the notebook's global `scraper`,
\* whatever the parameter `code` is.
ParsedText == scraper

\* The arguments a caller passes: the global, as cell 6 does, or another text.
CodeArgs == {scraper, <<>>}

\* Variant of Call where the two dicts outlive the call that filled them
CallKeepingDicts ==
    /\ pc \in {"idle", "done", "failed"}
    /\ \E c \in CodeArgs, d \in Docs :
        /\ code' = c
        /\ doc' = d
    /\ idx' = 0
    /\ selectors' = selectors
    /\ export' = export
    /\ queries' = 0
    /\ IF ParseOk(ParsedText)
       THEN /\ ast' = Parse(ParsedText)
            /\ pc' = "loop"
            /\ output' = Nothing
       ELSE /\ ast' = <<>>
            /\ pc' = "failed"
            /\ output' = Raised("SyntaxError", "")
    /\ UNCHANGED <<scraper, processLocale>>

\* Variant of Call whose parser drops the lines no statement shape matches
CallSkippingUnknown ==
    /\ pc \in {"idle", "done", "failed"}
    /\ \E c \in CodeArgs, d \in Docs :
        /\ code' = c
        /\ doc' = d
    /\ idx' = 0
    /\ selectors' = NoSelectors
    /\ export' = EmptyTree
    /\ queries' = 0
    /\ ast' = Parse(SelectSeq(ParsedText, Matches))
    /\ pc' = "loop"
    /\ output' = Nothing
    /\ UNCHANGED <<scraper, processLocale>>

\* run(code, html) up to the loop: parse, etree.fromstring, the two empty dicts
Call ==
    /\ pc \in {"idle", "done", "failed"}
    /\ \E c \in CodeArgs, d \in Docs :
        /\ code' = c
        /\ doc' = d
    /\ idx' = 0
    /\ selectors' = NoSelectors
    /\ export' = EmptyTree
    /\ queries' = 0
    /\ IF ParseOk(ParsedText)
       THEN /\ ast' = Parse(ParsedText)
            /\ pc' = "loop"
            /\ output' = Nothing
       ELSE /\ ast' = <<>>
            /\ pc' = "failed"
            /\ output' = Raised("SyntaxError", "")
    /\ UNCHANGED <<scraper, processLocale>>

AtStatement(kind) == pc = "loop" /\ idx < Len(ast) /\ ast[idx + 1].kind = kind

\* Variant of EvalLocale that swallows locale.Error and goes on with the locale in force
EvalLocaleIgnoringError ==
    /\ AtStatement("LocaleStatement")
    /\ processLocale' = IF ast[idx + 1].locale \in HostLocales
                        THEN ast[idx + 1].locale ELSE processLocale
    /\ idx' = idx + 1
    /\ UNCHANGED <<scraper, code, doc, pc, ast, selectors, export, queries, output>>

\* isinstance(stmt, LocaleStatement): locale.setlocale(locale.LC_ALL, stmt.locale)
EvalLocale ==
    /\ AtStatement("LocaleStatement")
    /\ IF ast[idx + 1].locale \in HostLocales
       THEN /\ processLocale' = ast[idx + 1].locale
            /\ idx' = idx + 1
            /\ UNCHANGED <<pc, output>>
       ELSE /\ pc' = "failed"
            /\ output' = Raised("locale.Error", "unsupported locale setting")
            /\ UNCHANGED <<processLocale, idx>>
    /\ UNCHANGED <<scraper, code, doc, ast, selectors, export, queries>>

\* Variant of EvalSelector that stores the new binding's matches in the lists already exported
EvalSelectorRefreshing ==
    /\ AtStatement("SelectorStatement")
    /\ selectors' = Bind(selectors, ast[idx + 1].name, ast[idx + 1].selector)
    /\ export' = [p \in TreePaths |->
                    IF export[p].type = "list"
                    THEN NewList(Extract(doc, ast[idx + 1].selector))
                    ELSE export[p]]
    /\ idx' = idx + 1
    /\ UNCHANGED <<scraper, processLocale, code, doc, pc, ast, queries, output>>

\* Variant of EvalSelector that resolves the selector against the document when it is declared
EvalSelectorEager ==
    /\ AtStatement("SelectorStatement")
    /\ selectors' = Bind(selectors, ast[idx + 1].name, ast[idx + 1].selector)
    /\ queries' = queries + 1
    /\ idx' = idx + 1
    /\ UNCHANGED <<scraper, processLocale, code, doc, pc, ast, export, output>>

\* isinstance(stmt, SelectorStatement): selectors[stmt.name] = stmt.selector
EvalSelector ==
    /\ AtStatement("SelectorStatement")
    /\ selectors' = Bind(selectors, ast[idx + 1].name, ast[idx + 1].selector)
    /\ idx' = idx + 1
    /\ UNCHANGED <<scraper, processLocale, code, doc, pc, ast, export, queries, output>>

\* Variant of EvalComment that stays at the comment
EvalCommentStuck ==
    /\ AtStatement("Comment")
    /\ idx' = idx
    /\ UNCHANGED <<scraper, processLocale, code, doc, pc, ast, selectors, export, queries, output>>

\* isinstance(stmt, Comment): pass
EvalComment ==
    /\ AtStatement("Comment")
    /\ idx' = idx + 1
    /\ UNCHANGED <<scraper, processLocale, code, doc, pc, ast, selectors, export, queries, output>>

\* Variant of EvalExport that prints the dict built so far when the statement raises
EvalExportPrintingOnError ==
    /\ AtStatement("ExportStatement")
    /\ LET r == ExportInto(export, selectors, doc, ast[idx + 1]) IN
        /\ export' = r.tree
        /\ queries' = IF r.queried THEN queries + 1 ELSE queries
        /\ IF r.exc = "none"
           THEN /\ idx' = idx + 1
                /\ UNCHANGED <<pc, output>>
           ELSE /\ pc' = "failed"
                /\ output' = Printed(r.tree)
                /\ UNCHANGED idx
    /\ UNCHANGED <<scraper, processLocale, code, doc, ast, selectors>>

\* isinstance(stmt, ExportStatement)
EvalExport ==
    /\ AtStatement("ExportStatement")
    /\ LET r == ExportInto(export, selectors, doc, ast[idx + 1]) IN
        /\ export' = r.tree
        /\ queries' = IF r.queried THEN queries + 1 ELSE queries
        /\ IF r.exc = "none"
           THEN /\ idx' = idx + 1
                /\ UNCHANGED <<pc, output>>
           ELSE /\ pc' = "failed"
                /\ output' = Raised(r.exc, r.arg)
                /\ UNCHANGED idx
    /\ UNCHANGED <<scraper, processLocale, code, doc, ast, selectors>>

\* the loop is over: print(export)
Return ==
    /\ pc = "loop"
    /\ idx = Len(ast)
    /\ output' = Printed(export)
    /\ pc' = "done"
    /\ UNCHANGED <<scraper, processLocale, code, doc, ast, idx, selectors, export, queries>>

\* What the loop and print(export) of run give for a statement list, from
\* statement k on with the dicts as given: the printed dict, or the first exception
RECURSIVE Evaluate(_, _, _, _, _)
Evaluate(stmts, k, sels, tree, d) ==
    IF k > Len(stmts) THEN Printed(tree)
    ELSE LET stmt == stmts[k] IN
         CASE stmt.kind = "LocaleStatement" ->
                IF stmt.locale \in HostLocales
                THEN Evaluate(stmts, k + 1, sels, tree, d)
                ELSE Raised("locale.Error", "unsupported locale setting")
           [] stmt.kind = "SelectorStatement" ->
                Evaluate(stmts, k + 1, Bind(sels, stmt.name, stmt.selector), tree, d)
           [] stmt.kind = "Comment" ->
                Evaluate(stmts, k + 1, sels, tree, d)
           [] stmt.kind = "ExportStatement" ->
                LET r == ExportInto(tree, sels, d, stmt) IN
                IF r.exc = "none"
                THEN Evaluate(stmts, k + 1, sels, r.tree, d)
                ELSE Raised(r.exc, r.arg)

\* the result of the loop of run on a parsed script, from two empty dicts
RunOutcome(stmts, d) == Evaluate(stmts, 1, NoSelectors, EmptyTree, d)

Next == Call \/ EvalLocale \/ EvalSelector \/ EvalComment \/ EvalExport \/ Return

Spec == Init /\ [][Next]_vars

\* A call that has started goes on: the interpreter executes the loop body and
\* the print that follows it.  Nothing makes the session call run again.
Step == EvalLocale \/ EvalSelector \/ EvalComment \/ EvalExport \/ Return
SpecFair == Spec /\ WF_vars(Step)

----------------------------------------------------------------------------
(* Vocabulary of the properties: what the script read so far says *)

\* the ExportStatements for dotted path p among the first n statements
ExportsOf(p, n) == {k \in 1..n : ast[k].kind = "ExportStatement" /\ ast[k].name = p}

\* the SelectorStatements binding name among the first n statements
DeclsOf(name, n) == {k \in 1..n : ast[k].kind = "SelectorStatement" /\ ast[k].name = name}

MaxOf(S) == CHOOSE m \in S : \A x \in S : x <= m
MinOf(S) == CHOOSE m \in S : \A x \in S : m <= x

\* the selector statement k sees under name: that of the last declaration before k
BoundAt(name, k) == ast[MaxOf(DeclsOf(name, k - 1))].selector

\* the elements tagged child whose parent element is tagged parent
DirectMatches(d, sel) ==
    {i \in 1..Len(d) : d[i].tag = sel.child /\ d[i].parent # 0 /\ d[d[i].parent].tag = sel.parent}

RECURSIVE HasAncestorOrSelf(_, _, _)
HasAncestorOrSelf(d, i, tag) ==
    i # 0 /\ (d[i].tag = tag \/ HasAncestorOrSelf(d, d[i].parent, tag))

\* the elements tagged child with a parent-tagged element on their ancestor-or-self chain
AncestorMatches(d, sel) ==
    {i \in 1..Len(d) : d[i].tag = sel.child /\ HasAncestorOrSelf(d, i, sel.parent)}

RECURSIVE InDocumentOrder(_)
InDocumentOrder(S) ==
    IF S = {} THEN <<>> ELSE <<MinOf(S)>> \o InDocumentOrder(S \ {MinOf(S)})

\* the leaf an export of the element set S leaves: their serializations in document order
LeafOf(d, S) ==
    LET o == InDocumentOrder(S) IN NewList([k \in 1..Len(o) |-> <<d[o[k]].markup, d[o[k]].tail>>])

\* statement idx is an export that has just completed
JustExported == pc \in {"loop", "done"} /\ idx >= 1 /\ ast[idx].kind = "ExportStatement"

----------------------------------------------------------------------------
(* C1 as stated: when run completes without error, every dotted path that  *)
(* was exported holds, in the printed dict, exactly the document-ordered   *)
(* serializations of the elements matched by the selector its last export  *)
(* statement saw under the referenced name.                                *)
C1_EveryExportedPathHoldsItsLastExport ==
    pc = "done" =>
        \A p \in TreePaths :
            ExportsOf(p, Len(ast)) # {} =>
                LET k == MaxOf(ExportsOf(p, Len(ast))) IN
                output.value[p] = LeafOf(doc, DirectMatches(doc, BoundAt(ast[k].selector, k)))

\* some later statement exports to a proper prefix of p
OverwrittenAbove(p, k) ==
    \E j \in (k + 1)..Len(ast) :
        ast[j].kind = "ExportStatement" /\ IsProperPrefix(ast[j].name, p)

(* C1 amended: the same, for every exported path whose last export is not  *)
(* followed by an export to a proper prefix of the path.                   *)
C1_SurvivingPathHoldsItsLastExport ==
    pc = "done" =>
        \A p \in TreePaths :
            ExportsOf(p, Len(ast)) # {} =>
                LET k == MaxOf(ExportsOf(p, Len(ast))) IN
                ~OverwrittenAbove(p, k) =>
                    output.value[p] = LeafOf(doc, DirectMatches(doc, BoundAt(ast[k].selector, k)))

\* the recorded output of cell 6: foo.paragraph holds the one <a> under <p>,
\* foo.list the three <a> under <li>, in document order
C1_Witness ==
    /\ pc = "done"
    /\ output.value[<<"foo">>] = NewDict
    /\ output.value[<<"foo", "paragraph">>] = NewList(<< <<"<a href=/foo>a link.</a>", "">> >>)
    /\ output.value[<<"foo", "list">>] =
          NewList(<< <<"<a href=/1.html>one</a>", "">>,
                     <<"<a href=/2.html>two</a>", "">>,
                     <<"<a href=/3.html>three</a>", "">> >>)

----------------------------------------------------------------------------
(* C2: selector overwrite is last-write-wins.  At every point of the run   *)
(* the symbol table binds exactly the names declared so far, each to the   *)
(* selector of its last declaration, and an export that has just completed *)
(* stored the matches of the last declaration before it.                   *)
C2_SelectorLastWriteWins ==
    /\ DOMAIN selectors = {ast[k].name : k \in {j \in 1..idx : ast[j].kind = "SelectorStatement"}}
    /\ \A n \in DOMAIN selectors : selectors[n] = ast[MaxOf(DeclsOf(n, idx))].selector
    /\ JustExported =>
        export[ast[idx].name] = NewList(Extract(doc, BoundAt(ast[idx].selector, idx)))

\* selector a = x -> y; selector a = p -> q; export ... = a has completed
C2_Witness ==
    /\ idx = 3 /\ JustExported
    /\ ast[1].kind = "SelectorStatement" /\ ast[2].kind = "SelectorStatement"
    /\ ast[1].name = ast[2].name /\ ast[1].selector # ast[2].selector
    /\ ast[3].selector = ast[1].name
    /\ Extract(doc, ast[1].selector) # Extract(doc, ast[2].selector)

----------------------------------------------------------------------------
\* the selector name of the export at k has no declaration anywhere in the script
NeverDeclared(k) == DeclsOf(ast[k].selector, Len(ast)) = {}

(* C3 as stated: an ExportStatement that references a selector name the    *)
(* script never declares does not complete; the run fails at it with the   *)
(* undefined-selector error (KeyError) carrying the missing name, and      *)
(* nothing is printed.                                                     *)
C3_UndefinedSelectorNamesTheMissingName ==
    /\ \A k \in 1..idx : ast[k].kind = "ExportStatement" => ~NeverDeclared(k)
    /\ (pc = "failed" /\ idx < Len(ast) /\ ast[idx + 1].kind = "ExportStatement"
            /\ NeverDeclared(idx + 1))
        => output = Raised("KeyError", ast[idx + 1].selector)

----------------------------------------------------------------------------
\* the last LocaleStatement among the statements this call has completed
LocalesOf(n) == {k \in 1..n : ast[k].kind = "LocaleStatement"}
OwnLocale == IF LocalesOf(idx) = {} THEN StartupLocale ELSE ast[MaxOf(LocalesOf(idx))].locale

(* C4 as stated: the locale a run observes is the one it declared itself,  *)
(* or the startup locale when it has declared none: no run sees a locale   *)
(* set by another run.                                                     *)
C4_LocaleScopedToTheRun ==
    pc \in {"loop", "done"} => processLocale = OwnLocale

----------------------------------------------------------------------------
(* C5 as stated: the statements run evaluates are those parsed from its    *)
(* code argument, and it raises SyntaxError exactly when that argument     *)
(* does not parse.                                                         *)
C5_EvaluatesTheCodeArgument ==
    pc # "idle" =>
        IF ParseOk(code)
        THEN ast = Parse(code) /\ output # Raised("SyntaxError", "")
        ELSE pc = "failed" /\ output = Raised("SyntaxError", "")

----------------------------------------------------------------------------
(* C6: no partial result.  A call that failed gave its caller the          *)
(* exception and no dict; nothing is printed while the loop runs; the only *)
(* dict ever printed is the complete one of a call that returned.          *)
C6_NoPartialResult ==
    /\ pc = "failed" => output.kind = "raised"
    /\ pc = "loop" => output = Nothing
    /\ output.kind = "printed" => pc = "done" /\ idx = Len(ast) /\ output.value = export

\* a call failed at an export that had already created the dict a.b, after
\* an earlier export had stored the leaf a.c
C6_Witness ==
    /\ pc = "failed" /\ output.kind = "raised"
    /\ idx < Len(ast)
    /\ ast[idx + 1].kind = "ExportStatement" /\ ast[idx + 1].name = <<"a", "b", "c">>
    /\ export[<<"a", "c">>].type = "list"
    /\ export[<<"a", "b">>].type = "dict"
    /\ export[<<"a", "b", "c">>].type = "absent"

----------------------------------------------------------------------------
Unrelated(p, q) == ~IsPrefix(p, q) /\ ~IsPrefix(q, p)

(* C7: an export to path P leaves every existing leaf whose path is        *)
(* neither P, a prefix of P nor an extension of P as it was; when it       *)
(* completes P holds a list, so two exports that differ in the last        *)
(* segment are both present under the shared dict.                         *)
C7_ExportKeepsUnrelatedLeaves ==
    [][AtStatement("ExportStatement") =>
        LET P == ast[idx + 1].name IN
        /\ \A q \in TreePaths :
              (export[q].type = "list" /\ Unrelated(P, q)) => export'[q] = export[q]
        /\ idx' = idx + 1 => export'[P].type = "list"]_vars

\* a.b and a.c both hold a list after the export of the second
C7_Witness ==
    /\ JustExported
    /\ \E j \in 1..(idx - 1) :
        /\ ast[j].kind = "ExportStatement"
        /\ Len(ast[j].name) = 2 /\ Len(ast[idx].name) = 2
        /\ ast[j].name[1] = ast[idx].name[1] /\ ast[j].name[2] # ast[idx].name[2]
        /\ export[ast[j].name].type = "list" /\ export[ast[idx].name].type = "list"
        /\ export[<<ast[idx].name[1]>>].type = "dict"

----------------------------------------------------------------------------
----------------------------------------------------------------------------
\* no proper prefix of p holds a list
PathIsFree(p) == \A q \in TreePaths : IsProperPrefix(q, p) => export[q].type # "list"

(* C9: a selector that matches nothing yields an empty list at the export  *)
(* path.  An export naming a bound selector with no match, to a path none  *)
(* of whose proper prefixes holds a list, completes without error and the  *)
(* path then holds the empty list; the loop goes on.                       *)
C9_ZeroMatchStoresEmptyList ==
    [][(/\ AtStatement("ExportStatement")
        /\ ast[idx + 1].selector \in DOMAIN selectors
        /\ DirectMatches(doc, selectors[ast[idx + 1].selector]) = {}
        /\ PathIsFree(ast[idx + 1].name))
       => /\ idx' = idx + 1 /\ pc' = "loop" /\ output' = Nothing
          /\ export'[ast[idx + 1].name] = NewList(<<>>)]_vars

\* a call returned a dict with an empty list in it
C9_Witness ==
    /\ pc = "done"
    /\ \E p \in TreePaths : output.value[p] = NewList(<<>>)

----------------------------------------------------------------------------
(* C10 as stated: an export that has just completed holds the elements     *)
(* tagged child that have a parent-tagged element on their                 *)
(* ancestor-or-self chain, at any depth.                                   *)
C10_MatchesAnyDepth ==
    JustExported =>
        export[ast[idx].name] = LeafOf(doc, AncestorMatches(doc, BoundAt(ast[idx].selector, idx)))

(* C10 amended: an export that has just completed holds exactly the        *)
(* elements tagged child whose parent element is tagged parent; a          *)
(* child-tagged element deeper below a parent-tagged element is not        *)
(* matched through that element.                                           *)
C10_MatchesDirectChildrenOnly ==
    JustExported =>
        export[ast[idx].name] = LeafOf(doc, DirectMatches(doc, BoundAt(ast[idx].selector, idx)))

\* ol -> a has been exported: the three anchors two levels below <ol> are not in the list
C10_Witness ==
    /\ JustExported
    /\ BoundAt(ast[idx].selector, idx) = [parent |-> "ol", child |-> "a"]
    /\ Cardinality(AncestorMatches(doc, [parent |-> "ol", child |-> "a"])) = 3
    /\ export[ast[idx].name] = NewList(<<>>)

----------------------------------------------------------------------------
\* statement k is a LocaleStatement the host cannot resolve
UnresolvableLocale(k) == ast[k].kind = "LocaleStatement" /\ ast[k].locale \notin HostLocales

(* C11: a LocaleStatement whose identifier the host cannot resolve aborts  *)
(* the run at that statement with locale.Error: the statement never        *)
(* completes, so no statement after it is evaluated; the step that meets   *)
(* it raises, leaves the locale, the symbol table and the dict as they     *)
(* were, and prints nothing.                                               *)
C11_UnresolvableLocaleAborts ==
    /\ [](\A k \in 1..idx : ~UnresolvableLocale(k))
    /\ [][(AtStatement("LocaleStatement") /\ UnresolvableLocale(idx + 1))
           => /\ pc' = "failed" /\ idx' = idx
              /\ output' = Raised("locale.Error", "unsupported locale setting")
              /\ UNCHANGED <<processLocale, selectors, export>>]_vars
    /\ [][pc = "failed" => idx' = 0]_vars

\* a run failed at locale xx_XX after completing two statements, one of them an export
C11_Witness ==
    /\ pc = "failed" /\ idx = 2 /\ Len(ast) = 3
    /\ UnresolvableLocale(3)
    /\ ast[2].kind = "ExportStatement"
    /\ ast[3].locale = "xx_XX"
    /\ output = Raised("locale.Error", "unsupported locale setting")

----------------------------------------------------------------------------
\* the export at idx + 1 reaches its selector lookup and finds the name bound:
\* no list lies on the part of its path the descent has to step through
LookupSucceeds ==
    /\ ast[idx + 1].selector \in DOMAIN selectors
    /\ \A q \in TreePaths :
          (IsProperPrefix(q, ast[idx + 1].name) /\ Len(q) < Len(ast[idx + 1].name) - 1)
              => export[q].type # "list"

(* C12: selectors are resolved lazily.  A Comment, LocaleStatement or      *)
(* SelectorStatement issues no query; an ExportStatement issues exactly    *)
(* one when its selector lookup succeeds and none otherwise; so the        *)
(* queries of a run count its exports, and a selector that is declared     *)
(* and never exported costs none.                                          *)
C12_QueriesOnlyAtExport ==
    /\ [](pc \in {"loop", "done"} =>
            queries = Cardinality({k \in 1..idx : ast[k].kind = "ExportStatement"}))
    /\ [][(pc = "loop" /\ ~AtStatement("ExportStatement")) => queries' = queries]_vars
    /\ [][AtStatement("ExportStatement") =>
            queries' = IF LookupSucceeds THEN queries + 1 ELSE queries]_vars

\* two selectors were declared, one was exported: one query
C12_Witness ==
    /\ pc = "done" /\ queries = 1
    /\ \E i, j \in 1..Len(ast) :
        /\ ast[i].kind = "SelectorStatement" /\ ast[j].kind = "SelectorStatement"
        /\ ast[i].name # ast[j].name
        /\ \A k \in 1..Len(ast) : ast[k].kind = "ExportStatement" => ast[k].selector = ast[i].name

----------------------------------------------------------------------------
\* the statement list with statements i and j exchanged
Swapped(stmts, i, j) ==
    [k \in 1..Len(stmts) |-> IF k = i THEN stmts[j] ELSE IF k = j THEN stmts[i] ELSE stmts[k]]

\* statement k declares or exports the selector name n
Mentions(k, n) ==
    \/ ast[k].kind = "SelectorStatement" /\ ast[k].name = n
    \/ ast[k].kind = "ExportStatement" /\ ast[k].selector = n

\* i < j are SelectorStatements binding distinct names, and no statement
\* between them mentions either name
IndependentDeclarations(i, j) ==
    /\ i < j
    /\ ast[i].kind = "SelectorStatement" /\ ast[j].kind = "SelectorStatement"
    /\ ast[i].name # ast[j].name
    /\ \A k \in (i + 1)..(j - 1) : ~Mentions(k, ast[i].name) /\ ~Mentions(k, ast[j].name)

\* the call is over and what it gave its caller is what the loop gives for its script
RunAgreesWithOutcome == (pc \in {"done", "failed"} /\ ast # <<>>) => output = RunOutcome(ast, doc)

----------------------------------------------------------------------------
\* the selector names the statements 1..n of this call declare
DeclaredBy(n) == {ast[k].name : k \in {i \in 1..n : ast[i].kind = "SelectorStatement"}}

(* C14: the two dicts are made empty by every call and hold what that call *)
(* put there, nothing else.  A step that starts a call (the only step      *)
(* from a state where no call is running) leaves both dicts empty, however *)
(* the call before ended; while a call runs and when it has returned, the  *)
(* names bound in selectors are the names its own statements 1..idx        *)
(* declared, and export is the dict a run of those statements alone gives. *)
C14_DictsAreFreshPerRun ==
    /\ [][(pc \in {"idle", "done", "failed"}) => (selectors' = NoSelectors /\ export' = EmptyTree)]_vars
    /\ [](pc \in {"loop", "done", "failed"} => DOMAIN selectors = DeclaredBy(idx))
    /\ [](pc \in {"loop", "done"} => Printed(export) = RunOutcome(SubSeq(ast, 1, idx), doc))

\* a call has just started, both dicts empty, after an earlier call of the same
\* script ended: the script sets a locale the host has, then binds a selector
\* and exports a non-empty list with it, so it cannot fail, and the locale in
\* force tells that the earlier call went through it
C14_Witness ==
    /\ pc = "loop" /\ idx = 0 /\ Len(ast) = 3
    /\ selectors = NoSelectors /\ export = EmptyTree
    /\ ast[1].kind = "LocaleStatement" /\ ast[1].locale # StartupLocale
    /\ processLocale = ast[1].locale
    /\ ast[2].kind = "SelectorStatement"
    /\ ast[3].kind = "ExportStatement" /\ ast[3].selector = ast[2].name
    /\ Extract(doc, ast[2].selector) # <<>>

----------------------------------------------------------------------------
\* the text has a line none of the four statement shapes matches
HasUnknownLine(text) == \E i \in 1..Len(text) : ~Matches(text[i])

StatementKinds == {"Comment", "LocaleStatement", "SelectorStatement", "ExportStatement"}

----------------------------------------------------------------------------
\* the selector name of the export at k is declared by the script, after k only
DeclaredOnlyLater(k) ==
    /\ DeclsOf(ast[k].selector, k) = {}
    /\ DeclsOf(ast[k].selector, Len(ast)) # {}

\* the statement list without the declarations of name n after statement k
RECURSIVE WithoutLaterDeclarations(_, _, _)
WithoutLaterDeclarations(stmts, k, n) ==
    IF Len(stmts) <= k THEN stmts
    ELSE LET last == stmts[Len(stmts)]
             front == WithoutLaterDeclarations(SubSeq(stmts, 1, Len(stmts) - 1), k, n)
         IN  IF last.kind = "SelectorStatement" /\ last.name = n THEN front ELSE Append(front, last)

\* A call that stopped at an export whose selector name is declared only later
\* gave the error the script gives with those later declarations taken out,
\* and no export of a name not yet declared ever completes.
ForwardReferenceLikeNeverDeclared ==
    /\ \A k \in 1..idx : ast[k].kind = "ExportStatement" => DeclsOf(ast[k].selector, k) # {}
    /\ (pc = "failed" /\ idx < Len(ast) /\ ast[idx + 1].kind = "ExportStatement"
            /\ DeclaredOnlyLater(idx + 1))
        => /\ output.kind = "raised"
           /\ output = RunOutcome(WithoutLaterDeclarations(ast, idx + 1, ast[idx + 1].selector), doc)

(* C16 as stated: an ExportStatement whose selector name is first declared *)
(* by a SelectorStatement later in the script never completes; the run     *)
(* fails at it with the undefined-selector error (KeyError) carrying the   *)
(* name, as for a name never declared, and goes no further.                *)
C16_ForwardReferenceFailsAsUndefined ==
    /\ \A k \in 1..idx : ast[k].kind = "ExportStatement" => DeclsOf(ast[k].selector, k) # {}
    /\ (pc = "failed" /\ idx < Len(ast) /\ ast[idx + 1].kind = "ExportStatement"
            /\ DeclaredOnlyLater(idx + 1))
        => output = Raised("KeyError", ast[idx + 1].selector)

----------------------------------------------------------------------------
(* C17: a SelectorStatement or a Comment leaves the export dict as it was. *)
(* The step that evaluates one changes nothing in export and goes on to    *)
(* the next statement; and every list the dict holds is, whatever has been *)
(* declared since, the list of matches of the selector that was bound to   *)
(* the referenced name when the last export to that path ran.              *)
C17_DeclarationsAndCommentsKeepExport ==
    /\ [][(AtStatement("SelectorStatement") \/ AtStatement("Comment"))
             => (export' = export /\ idx' = idx + 1 /\ pc' = "loop")]_vars
    /\ [](pc \in {"loop", "done"} =>
            \A p \in TreePaths :
                export[p].type = "list" =>
                    /\ ExportsOf(p, idx) # {}
                    /\ LET k == MaxOf(ExportsOf(p, idx)) IN
                       export[p] = LeafOf(doc, DirectMatches(doc, BoundAt(ast[k].selector, k))))

\* a name was bound, exported to a path, then bound to a selector with other
\* matches: the path still holds the non-empty list of the first binding
C17_Witness ==
    /\ pc \in {"loop", "done"} /\ idx = 3
    /\ ast[1].kind = "SelectorStatement"
    /\ ast[2].kind = "ExportStatement" /\ ast[2].selector = ast[1].name
    /\ ast[3].kind = "SelectorStatement" /\ ast[3].name = ast[1].name
    /\ Extract(doc, ast[3].selector) # Extract(doc, ast[1].selector)
    /\ Extract(doc, ast[1].selector) # <<>>
    /\ selectors[ast[1].name] = ast[3].selector
    /\ export[ast[2].name] = NewList(Extract(doc, ast[1].selector))

----------------------------------------------------------------------------
\* Every object of the nested dict is a dict or a list of strings; an object
\* is reached through dicts only, and only a list has items.
WellFormed(tree) ==
    \A p \in TreePaths :
        /\ tree[p].type \in {"absent", "dict", "list"}
        /\ tree[p].type # "list" => tree[p].items = <<>>
        /\ tree[p].type # "absent" =>
              \A q \in TreePaths : IsProperPrefix(q, p) => tree[q].type = "dict"

(* C18: no export goes through a stored list.  An ExportStatement whose    *)
(* dotted path has a proper prefix that holds a list fails at that         *)
(* statement: an exception is raised (TypeError when its selector is       *)
(* bound), nothing is printed and the export dict is left as it was.  In   *)
(* every state the dict is well formed, nothing below a list, and no step  *)
(* makes a dict of a path that holds a list.                               *)
C18_NoExportThroughALeaf ==
    /\ [][(AtStatement("ExportStatement") /\ ~PathIsFree(ast[idx + 1].name))
             => /\ pc' = "failed" /\ idx' = idx
                /\ output'.kind = "raised" /\ output'.exc \in {"TypeError", "KeyError"}
                /\ ast[idx + 1].selector \in DOMAIN selectors => output'.exc = "TypeError"
                /\ export' = export]_vars
    /\ [](WellFormed(export))
    /\ [][\A p \in TreePaths : export[p].type = "list" => export'[p].type # "dict"]_vars

\* the example of the claim: a list was exported to a path, and the export to
\* a path one segment longer, with a bound selector, has failed with TypeError
C18_Witness ==
    /\ pc = "failed" /\ idx = 2 /\ Len(ast) = 3
    /\ ast[2].kind = "ExportStatement" /\ ast[3].kind = "ExportStatement"
    /\ IsProperPrefix(ast[2].name, ast[3].name) /\ Len(ast[3].name) = Len(ast[2].name) + 1
    /\ ast[3].selector \in DOMAIN selectors
    /\ export[ast[2].name].type = "list" /\ export[ast[2].name].items # <<>>
    /\ export[ast[3].name].type = "absent"
    /\ output = Raised("TypeError", "list indices")

----------------------------------------------------------------------------
(* C19: an export to a path that holds a dict replaces the dict.  An       *)
(* ExportStatement with a bound selector whose path holds a dict (the path *)
(* is a proper prefix of paths exported before) completes without error:   *)
(* the path then holds the list of the selector's matches, every path      *)
(* below it holds nothing, every other path is as before, and the loop     *)
(* goes on.  In the printed dict every exported path whose last export was *)
(* followed by an export to a proper prefix of it is absent.               *)
C19_PrefixExportReplacesTheMapping ==
    /\ [][(/\ AtStatement("ExportStatement")
           /\ export[ast[idx + 1].name].type = "dict"
           /\ ast[idx + 1].selector \in DOMAIN selectors)
          => /\ pc' = "loop" /\ idx' = idx + 1 /\ output' = Nothing
             /\ \A q \in TreePaths :
                  export'[q] = IF q = ast[idx + 1].name
                               THEN NewList(Extract(doc, selectors[ast[idx + 1].selector]))
                               ELSE IF IsProperPrefix(ast[idx + 1].name, q) THEN Absent
                               ELSE export[q]]_vars
    /\ [](pc = "done" =>
            \A p \in TreePaths :
                (ExportsOf(p, Len(ast)) # {} /\ OverwrittenAbove(p, MaxOf(ExportsOf(p, Len(ast)))))
                    => output.value[p] = Absent)

\* the example of the claim: a call has printed a dict in which the path of its
\* last export holds a non-empty list and the longer path exported before is gone
C19_Witness ==
    /\ pc = "done" /\ Len(ast) = 3
    /\ ast[1].kind = "SelectorStatement"
    /\ ast[2].kind = "ExportStatement" /\ ast[3].kind = "ExportStatement"
    /\ IsProperPrefix(ast[3].name, ast[2].name)
    /\ output.value[ast[3].name].type = "list" /\ output.value[ast[3].name].items # <<>>
    /\ output.value[ast[2].name] = Absent

----------------------------------------------------------------------------
(* C20: run terminates after one pass in source order.  While a call runs, *)
(* a step either evaluates statement idx + 1 and moves to the next (so the *)
(* statements are taken in order, none twice, none skipped) or ends the    *)
(* call where it stands; the call ends with the printed dict only after    *)
(* the last statement, and then prints the dict as accumulated; a call     *)
(* that failed stopped before its last statement and evaluates no more:    *)
(* the only step after the end of a call is a new call.  Every call that   *)
(* has started ends, printed or failed.                                    *)
C20_RunTerminatesInOnePass ==
    /\ [][pc = "loop" => \/ pc' = "loop" /\ idx' = idx + 1 /\ idx < Len(ast)
                         \/ pc' = "failed" /\ idx' = idx /\ idx < Len(ast)
                         \/ pc' = "done" /\ idx' = idx /\ idx = Len(ast)
                              /\ output' = Printed(export) /\ export' = export]_vars
    /\ [](pc = "done" => idx = Len(ast) /\ output = Printed(export))
    /\ [](pc = "failed" /\ ast # <<>> => idx < Len(ast) /\ output.kind = "raised")
    /\ [][(pc \in {"done", "failed"}) => idx' = 0]_vars
    /\ (pc = "loop") ~> (pc \in {"done", "failed"})

\* the notebook's script has been evaluated to its tenth and last statement
\* and the dict printed
C20_Witness ==
    /\ pc = "done" /\ ast = Parse(NotebookScript)
    /\ idx = Len(NotebookScript) /\ queries = 2
    /\ output = Printed(export)

====
